---- MODULE Spec2Model ----
(***************************************************************************)
(* Model of the QR_Generator batch pipeline:                               *)
(*   src/pdf_generator.py  process_records  (QR image + PDF page per row)  *)
(*   src/qr_generator.py   generate_qr_codes_for_csv  (QR image per row)   *)
(*                                                                         *)
(* Strings are sequences of characters (each character a TLA+ string, a    *)
(* fixed piece such as ".png" or a directory name being one element), so   *)
(* that formatting a path is a concatenation the checks can inspect.       *)
(* Canvas coordinates are kept in half-points (twice the value in points)  *)
(* because the code halves integers with true division.                    *)
(***************************************************************************)
EXTENDS Integers, Sequences, FiniteSets, TLC

(***************************************************************************)
(* Bounds of the model and constants of the program.                       *)
(***************************************************************************)
MaxRows == 3

TopMargin == 100
SkipRowsDefault == 1
NameColumnIndex == 0
NumberColumnIndex == 1

NoBackground == "None"

(***************************************************************************)
(* Text: decimal formatting, f-string file names, os.path.join.            *)
(***************************************************************************)
Digit(d) == CASE d = 0 -> "0" [] d = 1 -> "1" [] d = 2 -> "2" [] d = 3 -> "3"
              [] d = 4 -> "4" [] d = 5 -> "5" [] d = 6 -> "6" [] d = 7 -> "7"
              [] d = 8 -> "8" [] d = 9 -> "9"

RECURSIVE Str(_)
Str(n) == IF n < 10 THEN <<Digit(n)>> ELSE Str(n \div 10) \o <<Digit(n % 10)>>

\* Variants of the file name a slip would produce: the 0-based row label,
\* and the name without the row number.
ArtifactNameZeroBased(index, name, ext) == Str(index) \o <<"-">> \o name \o <<ext>>
ArtifactNameNoIndex(index, name, ext) == name \o <<ext>>

\* f"{index+1}-{raw_name}.png" / f"{index+1}-{raw_name}.pdf"
ArtifactName(index, name, ext) == Str(index + 1) \o <<"-">> \o name \o <<ext>>

\* os.path.join(dir, file_name): the file name starts with a digit, never
\* with "/", so the join is dir + "/" + file_name.
PathJoin(dir, file_name) == dir \o <<"/">> \o file_name

RECURSIVE LastSlash(_)
LastSlash(p) == IF p = <<>> THEN 0
                ELSE IF p[Len(p)] = "/" THEN Len(p)
                ELSE LastSlash(SubSeq(p, 1, Len(p) - 1))

\* The directory part of a path (empty when the path has no "/").
Dirname(p) == IF LastSlash(p) = 0 THEN <<>> ELSE SubSeq(p, 1, LastSlash(p) - 1)

\* A path and all its ancestors: what os.makedirs creates.
Ancestors(p) == {SubSeq(p, 1, k) : k \in {j \in 1..Len(p) : j = Len(p) \/ p[j + 1] = "/"}}

(***************************************************************************)
(* FarsiTextProcessor.process_text: arabic_reshaper.reshape followed by    *)
(* bidi get_display.  The letters BEH (joins on both sides) and ALEF       *)
(* (joins to the preceding letter only) stand for the Arabic script; a     *)
(* reshaped letter is the letter with its presentation form.  Names are    *)
(* either free of Arabic letters (both steps leave them unchanged) or made *)
(* of Arabic letters only (one right-to-left run, displayed reversed).     *)
(***************************************************************************)
ArabicLetters == {"BEH", "ALEF"}
JoinsForward(ch) == ch = "BEH"
IsArabic(ch) == ch \in ArabicLetters

FormOf(s, i) ==
    LET prev == i > 1 /\ IsArabic(s[i - 1]) /\ JoinsForward(s[i - 1])
        next == i < Len(s) /\ IsArabic(s[i + 1]) /\ JoinsForward(s[i])
    IN  IF prev /\ next THEN ".medial"
        ELSE IF prev THEN ".final"
        ELSE IF next THEN ".initial"
        ELSE ".isolated"

Glyph(letter, form) ==
    CASE letter = "BEH" /\ form = ".isolated" -> "BEH.isolated"
      [] letter = "BEH" /\ form = ".initial"  -> "BEH.initial"
      [] letter = "BEH" /\ form = ".medial"   -> "BEH.medial"
      [] letter = "BEH" /\ form = ".final"    -> "BEH.final"
      [] letter = "ALEF" /\ form = ".final"   -> "ALEF.final"
      [] letter = "ALEF" /\ form = ".isolated" -> "ALEF.isolated"

reshape(s) == [i \in 1..Len(s) |-> IF IsArabic(s[i]) THEN Glyph(s[i], FormOf(s, i)) ELSE s[i]]

IsRTLGlyph(ch) == ch \in {Glyph(l, f) : l \in {"BEH"}, f \in {".isolated", ".initial", ".medial", ".final"}}
                         \cup {"ALEF.final", "ALEF.isolated"}

Reverse(s) == [i \in 1..Len(s) |-> s[Len(s) + 1 - i]]

get_display(s) == IF \E i \in 1..Len(s) : IsRTLGlyph(s[i]) THEN Reverse(s) ELSE s

process_text(raw_text) == get_display(reshape(raw_text))

(***************************************************************************)
(* Configuration (the dataclasses QRCodeConfig and PDFConfig) and the      *)
(* values main() passes.                                                   *)
(***************************************************************************)
MainQRConfig ==
    [version |-> 8, error_correction |-> "ERROR_CORRECT_L", box_size |-> 12,
     border |-> 4, fill_color |-> "black", back_color |-> "white"]

QRMainQRConfig ==
    [version |-> 3, error_correction |-> "ERROR_CORRECT_L", box_size |-> 10,
     border |-> 4, fill_color |-> "black", back_color |-> "white"]

MainPDFConfig ==
    [page_size |-> <<225, 400>>, background_image |-> "background.jpg",
     title_font |-> "Vazir-Bold", title_font_size |-> 20, title_color |-> <<1, 1, 1>>,
     number_font |-> "Helvetica", number_font_size |-> 14, number_color |-> <<0, 0, 0>>,
     qr_size |-> 150, title_y_offset |-> 40, qr_y_offset |-> 63, number_y_offset |-> 70]

\* Inputs of the runs explored: the configurations of main() and variations
\* of them, some outside the documented ranges.
QRConfigsFrom(main) ==
    {main,
     [main EXCEPT !.version = 41],
     [main EXCEPT !.box_size = 0],
     [main EXCEPT !.border = -1]}

PDFConfigs ==
    {MainPDFConfig,
     [MainPDFConfig EXCEPT !.background_image = NoBackground],
     [MainPDFConfig EXCEPT !.background_image = "missing.jpg"],
     [MainPDFConfig EXCEPT !.qr_size = 500],
     [MainPDFConfig EXCEPT !.title_font = "Unregistered"],
     [MainPDFConfig EXCEPT !.page_size = <<200, 301>>, !.qr_size = 101,
                           !.title_y_offset = 10, !.qr_y_offset = 25,
                           !.number_y_offset = 33]}

\* Fonts registered by main() (FontManager.register_font) and the built-in one.
RegisteredFonts == {"BNazanin", "Vazir-Bold", "Helvetica"}
\* Image files present in the working directory.
Assets == {"background.jpg"}

\* The ranges the QR library accepts when QRCode(...) is constructed.
ValidQRConfig(c) == c.version \in 1..40 /\ c.box_size > 0 /\ c.border >= 0
\* The page parameters of the data model: a QR no larger than the page.
ValidPDFConfig(c) ==
    /\ c.page_size[1] > 0 /\ c.page_size[2] > 0
    /\ c.qr_size > 0 /\ c.qr_size <= c.page_size[1] /\ c.qr_size <= c.page_size[2]
    /\ c.title_y_offset >= 0 /\ c.qr_y_offset >= 0 /\ c.number_y_offset >= 0

(***************************************************************************)
(* The CSV file: a header row followed by data rows (name, number).        *)
(***************************************************************************)
HeaderRow == <<<<"n", "a", "m", "e">>, <<"n", "u", "m", "b", "e", "r">>>>

RowValues ==
    {<< <<"A">>,                  <<"1", "2", "3", "4", "5">> >>,
     << <<"1", "-", "A">>,        <<"7">> >>,
     << <<"A">>,                  <<"7">> >>,
     << <<"A", "/", "A">>,        <<"4", "2">> >>,
     << <<"BEH", "ALEF", "BEH">>, <<"9">> >>,
     << <<"BEH", "BEH", "ALEF">>, <<"3", "3">> >>}

RECURSIVE SeqsUpTo(_, _)
SeqsUpTo(S, n) ==
    IF n = 0 THEN {<<>>}
    ELSE LET shorter == SeqsUpTo(S, n - 1)
         IN  shorter \cup {Append(s, x) : s \in {t \in shorter : Len(t) = n - 1}, x \in S}

\* The contents of the CSV file: an empty file, the header alone, or the header
\* and up to MaxRows data rows.
CSVFiles == {<<>>} \cup {<<HeaderRow>> \o rows : rows \in SeqsUpTo(RowValues, MaxRows)}

\* CSVDataReader.read_file: pd.read_csv(file_path, skiprows=skip_rows, header=None)
\* raises when the file does not exist (FileNotFoundError) and when no line is
\* left after the skipped ones (EmptyDataError).
read_file_raises(exists, csv, skip_rows) == ~exists \/ Len(csv) <= skip_rows

\* The rows left after the skipped ones, labelled 0, 1, 2, ...
read_file(csv, skip_rows) == SubSeq(csv, skip_rows + 1, Len(csv))

(***************************************************************************)
(* The file system: the set of directories and the files with their        *)
(* contents.  A world is the output directory names of a run and the file  *)
(* system it starts in.                                                    *)
(***************************************************************************)
NoFiles == [p \in {} |-> [kind |-> "old"]]
OldFile == [kind |-> "old"]

Worlds ==
    {\* nothing exists yet
     [qr_dir |-> <<"QR_codes">>, pdf_dir |-> <<"PDF_files">>, dirs |-> {}, files |-> NoFiles],
     \* both directories left by an earlier run, with an artifact of that run
     [qr_dir |-> <<"QR_codes">>, pdf_dir |-> <<"PDF_files">>,
      dirs |-> {<<"QR_codes">>, <<"PDF_files">>},
      files |-> [p \in {<<"QR_codes", "/", "1", "-", "A", ".png">>,
                        <<"PDF_files", "/", "9", "-", "A", ".pdf">>} |-> OldFile]],
     \* a regular file stands where the PDF directory should be
     [qr_dir |-> <<"QR_codes">>, pdf_dir |-> <<"PDF_files">>, dirs |-> {},
      files |-> [p \in {<<"PDF_files">>} |-> OldFile]],
     \* nested output directories
     [qr_dir |-> <<"out", "/", "qr">>, pdf_dir |-> <<"out", "/", "pdf">>, dirs |-> {},
      files |-> NoFiles]}

\* os.makedirs(path, exist_ok=exist_ok) raises when a regular file stands at
\* the path or at one of its ancestors, or when the directory exists and
\* exist_ok is false.
makedirs_raises(ds, fl, path, exist_ok) ==
    \/ \E a \in Ancestors(path) : a \in DOMAIN fl
    \/ ~exist_ok /\ path \in ds

\* Variant: os.makedirs(directory_path) without exist_ok.
create_directory_raises_not_exist_ok(ds, fl, path) == makedirs_raises(ds, fl, path, FALSE)

\* FileSystem.create_directory: os.makedirs(directory_path, exist_ok=True)
create_directory_raises(ds, fl, path) == makedirs_raises(ds, fl, path, TRUE)
create_directory(ds, path) == ds \cup Ancestors(path)

\* Opening a path for writing (image.save, canvas.save).
open_for_write_raises(ds, path) == Dirname(path) \notin ds \/ path \in ds

write_file(fl, path, content) ==
    [p \in DOMAIN fl \cup {path} |-> IF p = path THEN content ELSE fl[p]]

(***************************************************************************)
(* QRCodeGenerator.generate                                                *)
(***************************************************************************)
NoImage == [data |-> <<>>, version |-> 0, box_size |-> 0, border |-> 0,
            fill |-> "", back_color |-> ""]

\* qrcode.QRCode(version, error_correction, box_size, border) raises for a
\* value out of range; every identifier of RowValues fits version 1, so
\* make(fit=True) keeps the configured version.
generate_raises(config) == ~ValidQRConfig(config)

generate(config, data) ==
    [data |-> data, version |-> config.version, box_size |-> config.box_size,
     border |-> config.border, fill |-> config.fill_color,
     back_color |-> config.back_color]

PngFile(image) == [kind |-> "png", image |-> image]

(***************************************************************************)
(* PDFGenerator.generate_pdf: the calls made on the canvas, in order.      *)
(* Coordinates and sizes are in half-points.                               *)
(***************************************************************************)
HalfPt(v) == 2 * v
\* v / 2 (true division), in half-points
Half(v) == HalfPt(v) \div 2

x_center(config) == Half(config.page_size[1])
y_position(config) == HalfPt(config.page_size[2] - TopMargin)
qr_half_size(config) == Half(config.qr_size)

TitleY(config) == y_position(config) - HalfPt(config.title_y_offset)
QRImageX(config) == x_center(config) - qr_half_size(config)
\* Variant: the QR size left out of the vertical position of the image.
QRImageYWithoutSize(config) == y_position(config) - HalfPt(config.qr_y_offset)

QRImageY(config) == y_position(config) - HalfPt(config.qr_size) - HalfPt(config.qr_y_offset)
NumberY(config) == y_position(config) - HalfPt(config.qr_size) - HalfPt(config.number_y_offset)

DrawBackground(config) ==
    [call |-> "drawImage", image |-> config.background_image, reader |-> <<>>,
     x |-> 0, y |-> 0,
     width |-> HalfPt(config.page_size[1]), height |-> HalfPt(config.page_size[2])]

DrawTitle(config, name) ==
    [call |-> "drawCentredString", x |-> x_center(config), y |-> TitleY(config), text |-> name]

DrawQR(config, qr_image_path) ==
    [call |-> "drawImage", image |-> "", reader |-> qr_image_path,
     x |-> QRImageX(config), y |-> QRImageY(config),
     width |-> HalfPt(config.qr_size), height |-> HalfPt(config.qr_size)]

DrawNumber(config, number) ==
    [call |-> "drawCentredString", x |-> x_center(config), y |-> NumberY(config), text |-> number]

CanvasCalls(config, name, number, qr_image_path) ==
    << DrawBackground(config),
       [call |-> "setFont", font |-> config.title_font, size |-> config.title_font_size],
       [call |-> "setFillColorRGB", rgb |-> config.title_color],
       DrawTitle(config, name),
       [call |-> "ImageReader", path |-> qr_image_path],
       DrawQR(config, qr_image_path),
       [call |-> "setFont", font |-> config.number_font, size |-> config.number_font_size],
       [call |-> "setFillColorRGB", rgb |-> config.number_color],
       DrawNumber(config, number) >>

\* A canvas call raises when the image file or the QR image does not resolve
\* or the font was never registered.  drawImage(None, ...) draws the
\* library's stock image and does not raise.
CallRaises(c, fl) ==
    CASE c.call = "drawImage" ->
            c.reader = <<>> /\ c.image # NoBackground /\ c.image \notin Assets
      [] c.call = "ImageReader" -> c.path \notin DOMAIN fl
      [] c.call = "setFont" -> c.font \notin RegisteredFonts
      [] OTHER -> FALSE

\* The calls that complete: all of them, or those before the first that raises.
CompletedCalls(calls, fl) ==
    LET bad == {k \in 1..Len(calls) : CallRaises(calls[k], fl)}
    IN  IF bad = {} THEN calls
        ELSE SubSeq(calls, 1, (CHOOSE k \in bad : \A j \in bad : k <= j) - 1)

PdfFile(config, calls) == [kind |-> "pdf", pagesize |-> config.page_size, calls |-> calls]

(***************************************************************************)
(* State.                                                                  *)
(***************************************************************************)
VARIABLES
    prog,         \* "process_records" or "generate_qr_codes_for_csv"
    qr_config, pdf_config, qr_dir, pdf_dir, csv_file,    \* the arguments
    csv_exists,   \* whether a file stands at the path csv_file names
    dirs, files,  \* the file system
    pc,           \* the statement about to run
    df,           \* the rows read
    index,        \* label of the current row (-1 before the loop)
    raw_name, number, farsi_name, qr_image, qr_img_path, pdf_file,  \* locals
    canvas,       \* calls completed on the canvas of the current page
    stdout,       \* lines printed
    trace         \* the per-record steps started, in order: <<index, step>>

vars == <<prog, qr_config, pdf_config, qr_dir, pdf_dir, csv_file, csv_exists, dirs, files, pc,
          df, index, raw_name, number, farsi_name, qr_image, qr_img_path, pdf_file,
          canvas, stdout, trace>>

args == <<prog, qr_config, pdf_config, qr_dir, pdf_dir, csv_file, csv_exists>>
locals == <<raw_name, number, farsi_name, qr_image, qr_img_path, pdf_file>>

Programs == {"process_records", "generate_qr_codes_for_csv"}

Init ==
    /\ prog \in Programs
    /\ qr_config \in QRConfigsFrom(IF prog = "process_records" THEN MainQRConfig
                                                              ELSE QRMainQRConfig)
    /\ pdf_config \in IF prog = "process_records" THEN PDFConfigs ELSE {MainPDFConfig}
    /\ csv_file \in CSVFiles
    /\ csv_exists \in IF csv_file = <<>> THEN BOOLEAN ELSE {TRUE}
    /\ \E w \in Worlds :
          /\ qr_dir = w.qr_dir
          /\ pdf_dir = w.pdf_dir
          /\ dirs = w.dirs
          /\ files = w.files
    /\ pc = "create_qr_dir"
    /\ df = <<>>
    /\ index = -1
    /\ raw_name = <<>> /\ number = <<>> /\ farsi_name = <<>>
    /\ qr_image = NoImage /\ qr_img_path = <<>> /\ pdf_file = <<>>
    /\ canvas = <<>>
    /\ stdout = <<>>
    /\ trace = <<>>

\* An exception nobody catches ends the run.
Raise == pc' = "raised"

\* Variants of the statement order: the page composed before the QR image is
\* saved, and the report printed before the page is composed.
StepAfterComposeFirst(p, step) ==
    CASE step = "iterrows" -> IF p = "process_records" THEN "process_text" ELSE "generate"
      [] step = "process_text" -> "generate"
      [] step = "generate" -> IF p = "process_records" THEN "generate_pdf" ELSE "save_image"
      [] step = "generate_pdf" -> "save_image"
      [] step = "save_image" -> IF p = "process_records" THEN "print_generated" ELSE "iterrows"
      [] step = "print_generated" -> "iterrows"

StepAfterReportFirst(p, step) ==
    CASE step = "iterrows" -> IF p = "process_records" THEN "process_text" ELSE "generate"
      [] step = "process_text" -> "generate"
      [] step = "generate" -> "save_image"
      [] step = "save_image" -> IF p = "process_records" THEN "print_generated" ELSE "iterrows"
      [] step = "print_generated" -> "generate_pdf"
      [] step = "generate_pdf" -> "iterrows"

\* The statement that follows a statement of the loop body when it returns.
StepAfter(p, step) ==
    CASE step = "iterrows" -> IF p = "process_records" THEN "process_text" ELSE "generate"
      [] step = "process_text" -> "generate"
      [] step = "generate" -> "save_image"
      [] step = "save_image" -> IF p = "process_records" THEN "generate_pdf" ELSE "iterrows"
      [] step = "generate_pdf" -> "print_generated"
      [] step = "print_generated" -> "iterrows"

(***************************************************************************)
(* Steps of process_records / generate_qr_codes_for_csv.                   *)
(***************************************************************************)
\* file_system.create_directory(qr_dir)
CreateQRDir ==
    /\ pc = "create_qr_dir"
    /\ IF create_directory_raises(dirs, files, qr_dir)
       THEN Raise /\ UNCHANGED dirs
       ELSE /\ dirs' = create_directory(dirs, qr_dir)
            /\ pc' = IF prog = "process_records" THEN "create_pdf_dir" ELSE "read_file"
    /\ UNCHANGED <<args, files, df, index, locals, canvas, stdout, trace>>

\* file_system.create_directory(pdf_dir)
CreatePDFDir ==
    /\ pc = "create_pdf_dir"
    /\ IF create_directory_raises(dirs, files, pdf_dir)
       THEN Raise /\ UNCHANGED dirs
       ELSE dirs' = create_directory(dirs, pdf_dir) /\ pc' = "read_file"
    /\ UNCHANGED <<args, files, df, index, locals, canvas, stdout, trace>>

\* df = csv_reader.read_file(csv_file, skip_rows)
ReadFile ==
    /\ pc = "read_file"
    /\ IF read_file_raises(csv_exists, csv_file, SkipRowsDefault)
       THEN Raise /\ UNCHANGED df
       ELSE /\ df' = read_file(csv_file, SkipRowsDefault)
            /\ pc' = "iterrows"
    /\ UNCHANGED <<args, dirs, files, index, locals, canvas, stdout, trace>>

\* for index, row in df.iterrows(): the next row, its name and its number
IterRow ==
    /\ pc = "iterrows"
    /\ index + 1 < Len(df)
    /\ index' = index + 1
    /\ raw_name' = df[index' + 1][NameColumnIndex + 1]
    /\ number' = df[index' + 1][NumberColumnIndex + 1]
    /\ pc' = StepAfter(prog, "iterrows")
    /\ UNCHANGED <<args, dirs, files, df, farsi_name, qr_image, qr_img_path, pdf_file,
                   canvas, stdout, trace>>

\* farsi_name = text_processor.process_text(raw_name)
ProcessText ==
    /\ pc = "process_text"
    /\ trace' = Append(trace, <<index, "process_text">>)
    /\ farsi_name' = process_text(raw_name)
    /\ pc' = StepAfter(prog, "process_text")
    /\ UNCHANGED <<args, dirs, files, df, index, raw_name, number, qr_image, qr_img_path,
                   pdf_file, canvas, stdout>>

\* qr_image = qr_generator.generate(number); the path of the image
Generate ==
    /\ pc = "generate"
    /\ trace' = Append(trace, <<index, "generate">>)
    /\ IF generate_raises(qr_config)
       THEN Raise /\ UNCHANGED <<qr_image, qr_img_path>>
       ELSE /\ qr_image' = generate(qr_config, number)
            /\ qr_img_path' = PathJoin(qr_dir, ArtifactName(index, raw_name, ".png"))
            /\ pc' = StepAfter(prog, "generate")
    /\ UNCHANGED <<args, dirs, files, df, index, raw_name, number, farsi_name, pdf_file,
                   canvas, stdout>>

\* file_system.save_image(qr_image, qr_img_path); the path of the page
SaveImage ==
    /\ pc = "save_image"
    /\ trace' = Append(trace, <<index, "save_image">>)
    /\ IF open_for_write_raises(dirs, qr_img_path)
       THEN Raise /\ UNCHANGED <<files, pdf_file>>
       ELSE /\ files' = write_file(files, qr_img_path, PngFile(qr_image))
            /\ pdf_file' = IF prog = "process_records"
                           THEN PathJoin(pdf_dir, ArtifactName(index, raw_name, ".pdf"))
                           ELSE pdf_file
            /\ pc' = StepAfter(prog, "save_image")
    /\ UNCHANGED <<args, dirs, df, index, raw_name, number, farsi_name, qr_image,
                   qr_img_path, canvas, stdout>>

\* pdf_generator.generate_pdf(pdf_file, farsi_name, number, qr_img_path)
GeneratePDF ==
    /\ pc = "generate_pdf"
    /\ trace' = Append(trace, <<index, "generate_pdf">>)
    /\ LET calls == CanvasCalls(pdf_config, farsi_name, number, qr_img_path)
           done  == CompletedCalls(calls, files)
       IN  /\ canvas' = done
           /\ IF done # calls \/ open_for_write_raises(dirs, pdf_file)
              THEN Raise /\ UNCHANGED files
              ELSE /\ files' = write_file(files, pdf_file, PdfFile(pdf_config, calls))
                   /\ pc' = StepAfter(prog, "generate_pdf")
    /\ UNCHANGED <<args, dirs, df, index, locals, stdout>>

\* print(f"PDF generated: {pdf_file}")
PrintGenerated ==
    /\ pc = "print_generated"
    /\ trace' = Append(trace, <<index, "print">>)
    /\ stdout' = Append(stdout, <<"PDF generated: ">> \o pdf_file)
    /\ pc' = StepAfter(prog, "print_generated")
    /\ UNCHANGED <<args, dirs, files, df, index, locals, canvas>>

\* the loop is over: print("All PDFs created successfully!") /
\* print("QR codes generated successfully!")
PrintAll ==
    /\ pc = "iterrows"
    /\ index + 1 >= Len(df)
    /\ stdout' = Append(stdout, IF prog = "process_records"
                                THEN <<"All PDFs created successfully!">>
                                ELSE <<"QR codes generated successfully!">>)
    /\ pc' = "done"
    /\ UNCHANGED <<args, dirs, files, df, index, locals, canvas, trace>>

Next ==
    \/ CreateQRDir
    \/ CreatePDFDir
    \/ ReadFile
    \/ IterRow
    \/ ProcessText
    \/ Generate
    \/ SaveImage
    \/ GeneratePDF
    \/ PrintGenerated
    \/ PrintAll

Spec == Init /\ [][Next]_vars

(***************************************************************************)
(* Vocabulary of the properties.                                           *)
(***************************************************************************)
ProcessRecords == prog = "process_records"
Rows == 0..(Len(df) - 1)
NameOf(i) == df[i + 1][1]
NumberOf(i) == df[i + 1][2]
Steps == {trace[k] : k \in 1..Len(trace)}
Started(i) == \E k \in 1..Len(trace) : trace[k][1] = i
\* the rows whose "PDF generated" line has been printed
Reported == {i \in Rows : <<i, "print">> \in Steps}
\* the rows whose loop body has run to its end
Completed == {i \in Rows : i < index \/ (i = index /\ pc \in {"iterrows", "done"})}
Ended == pc \in {"done", "raised"}
\* the row whose step raised
Failed == IF pc = "raised" /\ index >= 0 THEN {index} ELSE {}

ExpectedQRPath(i) == qr_dir \o <<"/">> \o Str(i + 1) \o <<"-">> \o NameOf(i) \o <<".png">>
ExpectedPDFPath(i) == pdf_dir \o <<"/">> \o Str(i + 1) \o <<"-">> \o NameOf(i) \o <<".pdf">>

IsPng(p) == p \in DOMAIN files /\ files[p].kind = "png"
IsPdf(p) == p \in DOMAIN files /\ files[p].kind = "pdf"
PngArtifacts == {p \in DOMAIN files : files[p].kind = "png"}
PdfArtifacts == {p \in DOMAIN files : files[p].kind = "pdf"}
PdfPages == {files[p] : p \in PdfArtifacts}

\* drawImage(image, x, y, width, height) places the lower-left corner of the
\* image at (x, y); the y axis of the page points up.
ImageBottom(c) == c.y
ImageTop(c) == c.y + c.height

IsBackgroundDraw(c) == c.call = "drawImage" /\ c.reader = <<>>

(***************************************************************************)
(* C1: a failure of one record's shape, encode, QR-save or compose step is *)
(* caught and every later record is still processed, so when the run has   *)
(* ended every row of the source has been started.  The code has no        *)
(* handler: the exception ends the run and this is violated.               *)
(***************************************************************************)
C1_FailureDoesNotAbortBatch ==
    (ProcessRecords /\ Ended) => \A j \in Rows : Started(j)

(***************************************************************************)
(* C2: every successfully processed record has exactly one QR image at     *)
(* qr_dir/{row_index}-{display_name}.png and exactly one PDF at            *)
(* pdf_dir/{row_index}-{display_name}.pdf, row_index being the 1-based      *)
(* position after the skipped header and display_name the name as read.    *)
(***************************************************************************)
C2_ArtifactsNamedByRowIndex ==
    /\ ProcessRecords =>
          /\ \A i \in Reported :
                /\ IsPng(ExpectedQRPath(i))
                /\ files[ExpectedQRPath(i)].image.data = NumberOf(i)
                /\ IsPdf(ExpectedPDFPath(i))
                /\ files[ExpectedPDFPath(i)].calls[9].text = NumberOf(i)
          /\ pc \in {"iterrows", "done"} =>
                /\ Cardinality(PngArtifacts) = Cardinality(Reported)
                /\ Cardinality(PdfArtifacts) = Cardinality(Reported)
    /\ ~ProcessRecords =>
          /\ \A i \in Completed :
                /\ IsPng(ExpectedQRPath(i))
                /\ files[ExpectedQRPath(i)].image.data = NumberOf(i)
          /\ pc \in {"iterrows", "done"} =>
                Cardinality(PngArtifacts) = Cardinality(Completed)

C2_Witness ==
    /\ ProcessRecords /\ pc = "done"
    /\ Cardinality(Reported) >= 2
    /\ \E i \in Reported : NameOf(i) = <<"BEH", "ALEF", "BEH">>
    /\ \E i \in Reported : NameOf(i) = <<"1", "-", "A">>

(***************************************************************************)
(* C3: a record reported as succeeded (its "PDF generated" line printed)   *)
(* has its PDF file written, and the QR image that page embeds is written  *)
(* too; never only the QR image, or neither.                               *)
(***************************************************************************)
ReportLines == {k \in 1..Len(stdout) : stdout[k][1] = "PDF generated: "}

C3_ReportedHasBothFiles ==
    \A k \in ReportLines :
        LET path == Tail(stdout[k])
        IN  /\ IsPdf(path)
            /\ IsPng(files[path].calls[5].path)

C3_Witness ==
    /\ ProcessRecords /\ pc = "raised"
    /\ Cardinality(ReportLines) >= 1

(***************************************************************************)
(* C4: with an invalid QRCodeConfig or PDFConfig the run aborts before any *)
(* record is processed: no record is shaped, encoded or composed and no    *)
(* artifact is written.  The code validates nothing up front: the QR       *)
(* parameters are checked by the encoder inside the loop, after the first  *)
(* name was shaped, and the page parameters never; this is violated.       *)
(***************************************************************************)
C4_InvalidConfigAbortsBeforeRecords ==
    (ProcessRecords /\ (~ValidQRConfig(qr_config) \/ ~ValidPDFConfig(pdf_config))) =>
        (trace = <<>> /\ PngArtifacts = {} /\ PdfArtifacts = {})

(***************************************************************************)
(* C5: within a record the steps run in the order shape, encode, persist   *)
(* QR image, compose page (then report), and the page is composed only     *)
(* when that record's QR image is on disk at its allocated path.           *)
(***************************************************************************)
StepOrder == <<"process_text", "generate", "save_image", "generate_pdf", "print">>
StepsOfRow(i) == LET OfRow(e) == e[1] = i IN SelectSeq(trace, OfRow)

C5_ComposeAfterQRSaved ==
    ProcessRecords =>
        /\ \A i \in Rows :
              /\ Len(StepsOfRow(i)) <= Len(StepOrder)
              /\ \A k \in 1..Len(StepsOfRow(i)) : StepsOfRow(i)[k][2] = StepOrder[k]
        /\ pc = "generate_pdf" =>
              /\ qr_img_path = ExpectedQRPath(index)
              /\ IsPng(qr_img_path)
              /\ files[qr_img_path].image.data = NumberOf(index)

C5_Witness ==
    /\ ProcessRecords /\ pc = "generate_pdf" /\ index >= 1
    /\ Len(StepsOfRow(index)) = 3

(***************************************************************************)
(* C6: two records of one pass with different row_index values get         *)
(* different QR paths and different PDF paths, whatever their names        *)
(* (equal names, names with digits or "-"), and no record's artifact is    *)
(* overwritten by another record: at the end each file holds its own       *)
(* record's identifier.                                                    *)
(***************************************************************************)
C6_DistinctPathsPerRow ==
    /\ \A i, j \in Rows :
          i # j =>
             /\ PathJoin(qr_dir, ArtifactName(i, NameOf(i), ".png"))
                   # PathJoin(qr_dir, ArtifactName(j, NameOf(j), ".png"))
             /\ PathJoin(pdf_dir, ArtifactName(i, NameOf(i), ".pdf"))
                   # PathJoin(pdf_dir, ArtifactName(j, NameOf(j), ".pdf"))
    /\ pc = "done" =>
          /\ Cardinality(PngArtifacts) = Len(df)
          /\ ProcessRecords => Cardinality(PdfArtifacts) = Len(df)
          /\ \A i \in Rows :
                /\ IsPng(ExpectedQRPath(i))
                /\ files[ExpectedQRPath(i)].image.data = NumberOf(i)
                /\ ProcessRecords =>
                      /\ IsPdf(ExpectedPDFPath(i))
                      /\ files[ExpectedPDFPath(i)].calls[9].text = NumberOf(i)
                      /\ files[ExpectedPDFPath(i)].calls[5].path = ExpectedQRPath(i)

C6_Witness ==
    /\ ProcessRecords /\ pc = "done"
    /\ \E i, j \in Rows : i # j /\ NameOf(i) = NameOf(j) /\ NumberOf(i) # NumberOf(j)
    /\ \E i \in Rows : NameOf(i) = <<"1", "-", "A">>

(***************************************************************************)
(* C7: when the run ends it reports the processed and failed counts,       *)
(* succeeded + failed being the number of records, and the end-of-run      *)
(* report is printed for every batch, also when a record failed.  The code *)
(* prints its closing line only after a loop without exception and counts  *)
(* nothing; this is violated.                                              *)
(***************************************************************************)
EndReportPrinted ==
    /\ stdout # <<>>
    /\ stdout[Len(stdout)] = <<"All PDFs created successfully!">>

C7_EndReportAlwaysPrinted ==
    (ProcessRecords /\ Ended /\ df # <<>>) =>
        /\ EndReportPrinted
        /\ Cardinality(Reported) + Cardinality(Failed) = Len(df)

(***************************************************************************)
(* C8: creating an output directory is idempotent: when the call returns   *)
(* the directory exists whether or not it existed before, on an existing   *)
(* directory it raises nothing and changes no directory or file, and both  *)
(* output directories exist before any artifact is written.                *)
(***************************************************************************)
CreateStepIdempotent(step, dir) ==
    pc = step =>
        /\ dir \in dirs => (pc' # "raised" /\ dirs' = dirs)
        /\ pc' # "raised" => dir \in dirs'
        /\ dirs \subseteq dirs'
        /\ files' = files

C8_CreateDirectoryIdempotent ==
    [][ /\ CreateStepIdempotent("create_qr_dir", qr_dir)
        /\ CreateStepIdempotent("create_pdf_dir", pdf_dir)
        /\ files' # files => (qr_dir \in dirs /\ (ProcessRecords => pdf_dir \in dirs)) ]_vars

C8_Witness ==
    /\ ProcessRecords /\ pc = "done" /\ Len(df) >= 1
    /\ <<"PDF_files", "/", "9", "-", "A", ".pdf">> \in DOMAIN files

(***************************************************************************)
(* C9: the background is drawn only if background_image is set, then       *)
(* stretched to the full page and before title, QR image and number; with  *)
(* no background set the page is still composed and written.  The code     *)
(* calls drawImage(background_image, ...) unconditionally; this is         *)
(* violated.                                                               *)
(***************************************************************************)
C9_BackgroundOnlyIfSet ==
    ProcessRecords =>
        /\ pdf_config.background_image = NoBackground =>
              \A k \in 1..Len(canvas) : ~IsBackgroundDraw(canvas[k])
        /\ (pdf_config.background_image # NoBackground /\ canvas # <<>>) =>
              /\ IsBackgroundDraw(canvas[1])
              /\ canvas[1].x = 0 /\ canvas[1].y = 0
              /\ canvas[1].width = HalfPt(pdf_config.page_size[1])
              /\ canvas[1].height = HalfPt(pdf_config.page_size[2])
        /\ (pdf_config.background_image = NoBackground /\ pc = "print_generated") =>
              IsPdf(pdf_file)

(***************************************************************************)
(* C10 as stated: title centred at (page_width/2, page_height-100-         *)
(* title_y_offset); QR a square of side qr_size, left edge at              *)
(* page_width/2 - qr_size/2, its TOP edge at page_height-100-qr_size-      *)
(* qr_y_offset; number centred at (page_width/2, page_height-100-qr_size-  *)
(* number_y_offset).  Violated: that height is the lower edge of the QR.   *)
(***************************************************************************)
TitleAndNumberPlaced(page) ==
    LET w == page.pagesize[1]
        h == page.pagesize[2]
        title == page.calls[4]
        num == page.calls[9]
    IN  /\ title.call = "drawCentredString" /\ num.call = "drawCentredString"
        /\ title.x + title.x = HalfPt(w)
        /\ title.y = HalfPt(h - 100 - pdf_config.title_y_offset)
        /\ num.x + num.x = HalfPt(w)
        /\ num.y = HalfPt(h - 100 - pdf_config.qr_size - pdf_config.number_y_offset)

QRSquareCentred(page) ==
    LET w == page.pagesize[1]
        qr == page.calls[6]
    IN  /\ qr.call = "drawImage" /\ qr.reader # <<>>
        /\ qr.width = HalfPt(pdf_config.qr_size)
        /\ qr.height = HalfPt(pdf_config.qr_size)
        /\ qr.x + qr.x = HalfPt(w) - HalfPt(pdf_config.qr_size)

C10_AsStated_QRTopEdge ==
    \A page \in PdfPages :
        /\ TitleAndNumberPlaced(page)
        /\ QRSquareCentred(page)
        /\ ImageTop(page.calls[6])
              = HalfPt(page.pagesize[2] - 100 - pdf_config.qr_size - pdf_config.qr_y_offset)

(***************************************************************************)
(* C10 amended: the same layout, the height page_height-100-qr_size-       *)
(* qr_y_offset being the LOWER edge of the QR square (its lower-left       *)
(* corner); its top edge is at page_height-100-qr_y_offset.                *)
(***************************************************************************)
C10_Layout ==
    \A page \in PdfPages :
        /\ TitleAndNumberPlaced(page)
        /\ QRSquareCentred(page)
        /\ ImageBottom(page.calls[6])
              = HalfPt(page.pagesize[2] - 100 - pdf_config.qr_size - pdf_config.qr_y_offset)
        /\ ImageTop(page.calls[6]) = HalfPt(page.pagesize[2] - 100 - pdf_config.qr_y_offset)

C10_Witness ==
    /\ pdf_config.page_size = <<200, 301>> /\ pdf_config.qr_size = 101
    /\ PdfPages # {}

====
